---- MODULE Spec2Model ----
(***************************************************************************)
(* basic_chatbot: the retrieval engine (chatbot/rag_engine.py) and the     *)
(* streaming answer service (chatbot/service.py).                          *)
(*                                                                         *)
(* Texts are sequences of one-character strings.  A dataframe cell is      *)
(* either a text or NaN (what the loader yields for an empty cell; line 38 *)
(* of rag_engine.py coalesces NaN for the search texts only).              *)
(* Similarity scores are small integers standing for ordered levels.       *)
(***************************************************************************)
EXTENDS Integers, Sequences, FiniteSets, TLC

\* ------------------------------------------------------------------ bounds
MaxDocs == 2
MaxScore == 1
MaxRequests == 2
MaxCancels == 1
MaxQueries == 3

\* ------------------------------------------------------- program constants
DefaultTopK == 3
ServiceTopK == 3
MissingIndex == -1
MissingScore == -1

\* ------------------------------------------------------------ python values
None == <<>>
Some(n) == <<n>>

NaN == [nan |-> TRUE, s |-> <<>>]
Str(t) == [nan |-> FALSE, s |-> t]
\* bool(x) of a cell: a float NaN is truthy, a string is truthy iff non-empty
Truthy(c) == c.nan \/ c.s # <<>>
\* Series.fillna('')
FillNa(c) == IF c.nan THEN <<>> ELSE c.s

Min(a, b) == IF a < b THEN a ELSE b
Max(a, b) == IF a > b THEN a ELSE b

\* seq[:k] of a python sequence
PySliceTo(seq, k) ==
    IF k >= 0 THEN SubSeq(seq, 1, Min(k, Len(seq)))
    ELSE SubSeq(seq, 1, Max(Len(seq) + k, 0))

\* seq[i] of a python sequence, 0-based, negative i counted from the end;
\* only called with -Len(seq) <= i < Len(seq)
PyIndex(seq, i) == IF i >= 0 THEN seq[i + 1] ELSE seq[Len(seq) + i + 1]
PyIndexOk(seq, i) == -Len(seq) <= i /\ i < Len(seq)

\* ------------------------------------------------------------------ corpus
\* the rows the loader read; row i of the file
DocRow(i) ==
    CASE i % 3 = 0 -> [question |-> Str(<<"a">>), answer |-> Str(<<"b">>)]
      [] i % 3 = 1 -> [question |-> Str(<<"b">>), answer |-> NaN]
      [] OTHER     -> [question |-> NaN, answer |-> Str(<<"a">>)]

Df(n) == [i \in 1..n |-> DocRow(i - 1)]

\* self.texts
Texts(df) ==
    [i \in 1..Len(df) |-> FillNa(df[i].question) \o <<" ">> \o FillNa(df[i].answer)]

\* ---------------------------------------------------------------- retrieve
ScoreLevels == 0..MaxScore
SimVectors(n) == [1..n -> ScoreLevels]

\* the orders a descending sort of sims may produce (ties in any order),
\* as sequences of 0-based indices
Perms(n) ==
    {p \in [1..n -> 0..(n - 1)] : \A i, j \in 1..n : i # j => p[i] # p[j]}
IsDescending(p, sims) ==
    \A i \in 1..(Len(p) - 1) : sims[p[i] + 1] >= sims[p[i + 1] + 1]
Argsorts(sims) == {p \in Perms(Len(sims)) : IsDescending(p, sims)}

\* k = top_k or self.top_k
EffectiveK(top_k, self_top_k) ==
    IF top_k = None \/ top_k[1] = 0 THEN self_top_k ELSE top_k[1]

Result(i, text, score) == [index |-> i, text |-> text, score |-> score]
Raised == [raised |-> TRUE, results |-> <<>>]
Returned(rs) == [raised |-> FALSE, results |-> rs]

\* the lexical branch without the sort: the first k documents of the file
RetrieveTfidfUnsorted(df, k, sims, order) ==
    LET top == PySliceTo([j \in 1..Len(df) |-> j - 1], k)
    IN  Returned([j \in 1..Len(top) |->
                    Result(top[j], PyIndex(Texts(df), top[j]), sims[top[j] + 1])])

\* the lexical branch: np.argsort(-sims)[:k]
RetrieveTfidf(df, k, sims, order) ==
    LET top == PySliceTo(order, k)
    IN  Returned([j \in 1..Len(top) |->
                    Result(top[j], PyIndex(Texts(df), top[j]), sims[top[j] + 1])])

\* the semantic branch: index.search(q_emb, k) fills the slots past the
\* corpus size with index -1, and refuses k <= 0
SearchSlot(order, sims, j) ==
    IF j <= Len(order) THEN [i |-> order[j], d |-> sims[order[j] + 1]]
    ELSE [i |-> MissingIndex, d |-> MissingScore]

RetrieveEmbedding(df, k, sims, order) ==
    IF k <= 0 THEN Raised
    ELSE Returned([j \in 1..k |->
            LET slot == SearchSlot(order, sims, j)
            IN  Result(slot.i, PyIndex(Texts(df), slot.i), slot.d)])

\* RAGEngine.retrieve(query, top_k); the query is given by its similarity
\* to each document (sims) and by the order the sort leaves ties in
Retrieve(df, tfidf, top_k, sims, order) ==
    LET k == EffectiveK(top_k, DefaultTopK)
    IN  IF tfidf THEN RetrieveTfidf(df, k, sims, order)
        ELSE RetrieveEmbedding(df, k, sims, order)

\* ------------------------------------------------------------ handle_query
\* one candidate: df.iloc[idx] and its question/answer cells, or empty
\* strings when the lookup raises
Candidate(df, r) ==
    IF PyIndexOk(df, r.index)
    THEN [index |-> r.index, question |-> PyIndex(df, r.index).question,
          answer |-> PyIndex(df, r.index).answer, text |-> r.text, score |-> r.score]
    ELSE [index |-> r.index, question |-> Str(<<>>), answer |-> Str(<<>>),
          text |-> r.text, score |-> r.score]

\* best.get("answer") or best.get("text") or ""
BestAnswer(best) ==
    IF Truthy(best.answer) THEN best.answer
    ELSE IF best.text # <<>> THEN Str(best.text) ELSE Str(<<>>)

\* handle_query(message, top_k) on a built engine
HandleQuery(df, tfidf, top_k, sims, order) ==
    LET ret == Retrieve(df, tfidf, top_k, sims, order)
        cands == [j \in 1..Len(ret.results) |-> Candidate(df, ret.results[j])]
    IN  IF ret.raised THEN [raised |-> TRUE, answer |-> Str(<<>>), match |-> None,
                            score |-> 0, candidates |-> <<>>]
        ELSE IF cands # <<>>
        THEN [raised |-> FALSE, answer |-> BestAnswer(cands[1]),
              match |-> Some(cands[1].text), score |-> cands[1].score,
              candidates |-> cands]
        ELSE [raised |-> FALSE, answer |-> Str(<<>>), match |-> None,
              score |-> 0, candidates |-> <<>>]

\* ================================================================ service
\* the requests the service handles, each a call of llm_api or of llm_stream
Requests == 1..MaxRequests
Cancels == 1..MaxCancels
NoRequest == 0

\* str(uuid.uuid4()) drawn for request s: fresh, never a caller's id
Uuid(s) == "uuid" \o ToString(s)
CallerIds == {"r1"}
UnknownId == "zz"
RequestIds == CallerIds \cup {Uuid(s) : s \in Requests} \cup {UnknownId}
\* payload.get('request_id'): absent, the empty string, or an id
RequestIdInputs == {None, Some("")} \cup {Some(r) : r \in CallerIds}
CancelIdInputs == {None} \cup {Some(r) : r \in RequestIds}

\* payload.get('top_k', 3) before int(): absent, an integer, or not a number
TopKAbsent == [kind |-> "absent", v |-> 0]
TopKBad == [kind |-> "bad", v |-> 0]
TopKInt(n) == [kind |-> "int", v |-> n]
TopKInputs ==
    {TopKAbsent, TopKBad} \cup {TopKInt(n) : n \in (0 - MaxDocs)..(MaxDocs + 1)}
NoTopK == [kind |-> "none", v |-> 0]

\* ollama.chat(...): raises, returns something that is no dict, or a dict
\* with an optional message.content and an optional content
RefinedTexts == {<<"b", "a">>}
ContentTexts == {<<"a">>}
ChatRaise == [kind |-> "raise", message |-> None, content |-> None]
ChatNonDict == [kind |-> "nondict", message |-> None, content |-> None]
ChatDict(m, c) == [kind |-> "dict", message |-> m, content |-> c]
ChatResponses ==
    {ChatRaise, ChatNonDict} \cup
    {ChatDict(m, c) : m \in {None, Some(<<>>)} \cup {Some(t) : t \in RefinedTexts},
                      c \in {None} \cup {Some(t) : t \in ContentTexts}}
NoChat == [kind |-> "none", message |-> None, content |-> None]

\* resp.get('message', {}).get('content') or resp.get('content') or ''
AssistantContent(r) ==
    IF r.kind # "dict" THEN <<>>
    ELSE IF r.message # None /\ r.message[1] # <<>> THEN r.message[1]
    ELSE IF r.content # None /\ r.content[1] # <<>> THEN r.content[1]
    ELSE <<>>

\* the refinement block with the test of line 69/143 left out: whatever the
\* refiner returned replaces the answer
RefineAnswerAlways(fallback, has_ollama, r) ==
    IF ~has_ollama \/ r.kind = "raise" THEN fallback
    ELSE Str(AssistantContent(r))

\* the refinement block of llm_api and of generate: the answer after it
RefineAnswer(fallback, has_ollama, r) ==
    IF ~has_ollama \/ r.kind = "raise" THEN fallback
    ELSE IF AssistantContent(r) # <<>> THEN Str(AssistantContent(r))
    ELSE fallback

\* rag_result.get('answer', '') or ''
BaseAnswer(res) == IF Truthy(res.answer) THEN res.answer ELSE Str(<<>>)

\* _stream_chunks_chars(text) for a text: the chunks in order
StreamChunksChars(text) ==
    IF text = <<>> THEN << <<>> >> ELSE [i \in 1..Len(text) |-> <<text[i]>>]

VARIABLES
    ndocs,          \* number of rows of the data file
    use_tfidf,      \* RAG_USE_TFIDF
    ollama,         \* TRUE iff the ollama module was imported
    engine,         \* _engine: "None" or "built"
    active_streams, \* _active_streams: request id -> the stream whose Event it holds
    pc,             \* where each request stands
    request_id,     \* request_id of each stream
    cancel_event,   \* cancel_event of each stream
    events,         \* the events each stream has yielded
    answer,         \* the answer variable of generate / llm_api
    pos,            \* chunks taken from _stream_chunks_chars so far
    rag,            \* how the retrieval of the request went: none / ok / fail
    given,          \* local: the payload's request_id
    top_k,          \* local: the payload's top_k
    ncand,          \* local: len(rag_result['candidates'])
    base,           \* local: the answer before the refinement block
    chat,           \* local: what ollama.chat did
    setAt,          \* history: where the stream stood when its Event was first set
    cpc,            \* each cancel handler: "idle" or "got" (past the lookup)
    cev,            \* the stream whose Event the handler looked up
    clate,          \* history: when the handler was called, its request id was
                    \* unknown or its stream had yielded its terminal event
    cres,           \* the last response of each cancel handler
    rcall,          \* the last direct call of RAGEngine.retrieve
    hcall,          \* the last direct call of handle_query
    qpc,            \* where each thread calling _get_engine stands
    nbuilds         \* history: the calls of RAGEngine(...) started so far

envVars == <<ndocs, use_tfidf, ollama>>
localVars == <<given, top_k, ncand, base, chat>>
streamVars == <<active_streams, pc, request_id, cancel_event, events, answer, pos,
                rag, localVars, setAt>>
cancelVars == <<cpc, cev, clate, cres>>
callVars == <<rcall, hcall>>
buildVars == <<qpc, nbuilds>>
vars == <<envVars, engine, streamVars, cancelVars, callVars, buildVars>>

Event(rid, kind, text) == [request_id |-> rid, kind |-> kind, text |-> text]
TerminalKinds == {"done", "cancelled", "error"}
Count(s, kind) == Cardinality({i \in 1..Len(events[s]) : events[s][i].kind = kind})
TerminalEmitted(s) == \E i \in 1..Len(events[s]) : events[s][i].kind \in TerminalKinds
\* the pc values of a request that went through the registration of llm_stream
StreamPcs == {"created", "loop", "emit", "at_chunk", "at_terminal", "finished",
              "closed", "dropped", "crashed"}
IsStream(s) == pc[s] \in StreamPcs
Registered(s) == IsStream(s) /\ active_streams[request_id[s]] = s

NChunks(s) == Count(s, "chunk")
\* history of the first ev.set() on a stream: the chunks it had yielded, whether
\* it stood between its flag test and the yield of a chunk, and whether it was
\* registered with its terminal event still to come
NeverSet == [chunks |-> 0 - 1, busy |-> FALSE, live |-> FALSE]
SetNow(s) == [chunks |-> NChunks(s), busy |-> pc[s] = "emit",
              live |-> Registered(s) /\ ~TerminalEmitted(s)]
NoCall == [top_k |-> None, sims |-> <<>>, out |-> Returned(<<>>)]
NoQuery == [top_k |-> None, results |-> Returned(<<>>),
            out |-> [raised |-> FALSE, answer |-> Str(<<>>), match |-> None,
                     score |-> 0, candidates |-> <<>>]]
\* the threads that call handle_query at the same time
Queries == 1..MaxQueries
InitService ==
    /\ use_tfidf \in BOOLEAN
    /\ ollama \in BOOLEAN
    /\ engine = "None"
    /\ active_streams = [r \in RequestIds |-> NoRequest]
    /\ pc = [s \in Requests |-> "idle"]
    /\ request_id = [s \in Requests |-> ""]
    /\ cancel_event = [s \in Requests |-> FALSE]
    /\ events = [s \in Requests |-> <<>>]
    /\ answer = [s \in Requests |-> Str(<<>>)]
    /\ pos = [s \in Requests |-> 0]
    /\ rag = [s \in Requests |-> "none"]
    /\ given = [s \in Requests |-> None]
    /\ top_k = [s \in Requests |-> NoTopK]
    /\ ncand = [s \in Requests |-> 0]
    /\ base = [s \in Requests |-> Str(<<>>)]
    /\ chat = [s \in Requests |-> NoChat]
    /\ setAt = [s \in Requests |-> NeverSet]
    /\ cpc = [c \in Cancels |-> "idle"]
    /\ cev = [c \in Cancels |-> NoRequest]
    /\ clate = [c \in Cancels |-> FALSE]
    /\ cres = [c \in Cancels |-> "none"]
    /\ rcall = NoCall
    /\ hcall = NoQuery
    /\ qpc = [q \in Queries |-> "idle"]
    /\ nbuilds = 0

\* ------------------------------------------- retrieval and refinement
RagRaised == [raised |-> TRUE, answer |-> Str(<<>>), match |-> None, score |-> 0,
              candidates |-> <<>>]

\* handle_query(user_message, top_k=int(payload.get('top_k', 3))): int() of
\* something that is no number raises; _get_engine() builds the engine on
\* first use, and a build that raises leaves _engine None
RagCall(n, tfidf, ready, tk, sims, order) ==
    IF tk.kind = "bad" \/ ~ready THEN RagRaised
    ELSE HandleQuery(Df(n), tfidf,
                     Some(IF tk.kind = "absent" THEN ServiceTopK ELSE tk.v), sims, order)

\* the retrieval of a request (lines 46-55 of llm_api, 119-126 of generate):
\* whether it raised, whether _engine is built afterwards, the answer it
\* leaves and, when the locals are kept, the payload's top_k and the number
\* of candidates
Retrieved(n, tfidf, built, keep, tk, sims, order, build_ok) ==
    LET ready == built \/ build_ok
        res == RagCall(n, tfidf, ready, tk, sims, order)
    IN  [raised |-> res.raised,
         built  |-> IF tk.kind # "bad" /\ ready THEN TRUE ELSE built,
         base   |-> IF res.raised THEN Str(<<>>) ELSE BaseAnswer(res),
         top_k  |-> IF keep THEN tk ELSE NoTopK,
         ncand  |-> IF keep THEN Len(res.candidates) ELSE 0]

\* every retrieval, over the payload's top_k, the query and the build
RetrievedSet(n, tfidf, built, keep) ==
    UNION {{Retrieved(n, tfidf, built, keep, tk, sims, order, build_ok) :
               tk \in TopKInputs, order \in Argsorts(sims), build_ok \in BOOLEAN} :
           sims \in SimVectors(n)}

\* the refinement block after a retrieval (lines 57-72 of llm_api, 128-146
\* of generate): the answer, and the locals when they are kept
Prepared(ret, has_ollama, keep, r) ==
    [raised |-> ret.raised,
     built  |-> ret.built,
     answer |-> IF ret.raised THEN Str(<<>>) ELSE RefineAnswer(ret.base, has_ollama, r),
     top_k  |-> ret.top_k,
     ncand  |-> ret.ncand,
     base   |-> IF keep THEN ret.base ELSE Str(<<>>),
     chat   |-> IF keep /\ ~ret.raised /\ has_ollama THEN r ELSE NoChat]

PreparedSet(n, tfidf, has_ollama, built, keep) ==
    {Prepared(ret, has_ollama, keep, r) :
        ret \in RetrievedSet(n, tfidf, built, keep), r \in ChatResponses}

\* the outcomes for every configuration and engine state
Configs == (1..MaxDocs) \X BOOLEAN \X BOOLEAN \X BOOLEAN \X BOOLEAN
PreparedTable[c \in Configs] == PreparedSet(c[1], c[2], c[3], c[4], c[5])

Outcomes(keep) == PreparedTable[<<ndocs, use_tfidf, ollama, engine = "built", keep>>]

SetLocals(s, o) ==
    /\ UNCHANGED given
    /\ top_k' = [top_k EXCEPT ![s] = o.top_k]
    /\ ncand' = [ncand EXCEPT ![s] = o.ncand]
    /\ base' = [base EXCEPT ![s] = o.base]
    /\ chat' = [chat EXCEPT ![s] = o.chat]

\* the request slots are taken in order
NextSlot(s) == pc[s] = "idle" /\ \A u \in Requests : u < s => pc[u] # "idle"

\* ----------------------------------------------------------------- llm_api
\* POST /api/llm/: 400 on a bad payload or an empty message; an int() that
\* raises is an unhandled 500; a retrieval that raises is the 500 'RAG
\* error'; otherwise 200 with the answer after the refinement block
LlmApi(s, ok, o) ==
    /\ NextSlot(s)
    /\ IF ~ok
       THEN /\ pc' = [pc EXCEPT ![s] = "r400"]
            /\ UNCHANGED <<engine, answer, rag, localVars>>
       ELSE /\ engine' = IF o.built THEN "built" ELSE "None"
            /\ SetLocals(s, o)
            /\ pc' = [pc EXCEPT ![s] = IF o.raised THEN "r500" ELSE "r200"]
            /\ rag' = [rag EXCEPT ![s] = IF o.raised THEN "fail" ELSE "ok"]
            /\ answer' = [answer EXCEPT ![s] = o.answer]
    /\ UNCHANGED <<envVars, active_streams, request_id, cancel_event, events, pos,
                   setAt, cancelVars, callVars, buildVars>>

\* -------------------------------------------------------------- llm_stream
\* a deregistration that clears the registry
PoppedAll(s) == [r \in DOMAIN active_streams |-> NoRequest]

\* _active_streams.pop(request_id, None)
Popped(s) == [active_streams EXCEPT ![request_id[s]] = NoRequest]

\* a request id that is always generated
RequestIdOfFresh(s, rid_in) == Uuid(s)

\* request_id = payload.get('request_id') or str(uuid.uuid4())
RequestIdOf(s, rid_in) ==
    IF rid_in # None /\ rid_in[1] # "" THEN rid_in[1] ELSE Uuid(s)

\* llm_stream up to the Response: a bad payload is answered 400, otherwise
\* the stream is registered under its request id and the generator created
LlmStream(s, ok, rid_in, keep) ==
    /\ NextSlot(s)
    /\ IF ~ok
       THEN /\ pc' = [pc EXCEPT ![s] = "r400"]
            /\ UNCHANGED <<active_streams, request_id, cancel_event, given>>
       ELSE /\ given' = IF keep THEN [given EXCEPT ![s] = rid_in] ELSE given
            /\ request_id' = [request_id EXCEPT ![s] = RequestIdOf(s, rid_in)]
            /\ cancel_event' = [cancel_event EXCEPT ![s] = FALSE]
            /\ active_streams' = [active_streams EXCEPT ![RequestIdOf(s, rid_in)] = s]
            /\ pc' = [pc EXCEPT ![s] = "created"]
    /\ UNCHANGED <<envVars, engine, events, answer, pos, rag, top_k, ncand, base, chat,
                   setAt, cancelVars, callVars, buildVars>>

\* generate without the return of line 123: after the error event it carries
\* on with an empty answer
GenPrepareOn(s, o) ==
    /\ pc[s] = "created"
    /\ engine' = IF o.built THEN "built" ELSE "None"
    /\ SetLocals(s, o)
    /\ rag' = [rag EXCEPT ![s] = IF o.raised THEN "fail" ELSE "ok"]
    /\ answer' = [answer EXCEPT ![s] = o.answer]
    /\ events' = IF o.raised
                 THEN [events EXCEPT ![s] = Append(@, Event(request_id[s], "error", <<>>))]
                 ELSE events
    /\ pc' = [pc EXCEPT ![s] = "loop"]
    /\ UNCHANGED <<envVars, active_streams, request_id, cancel_event, pos, setAt,
                   cancelVars, callVars, buildVars>>

\* generate, from its start to the end of the refinement block (lines
\* 117-146): the retrieval, then ollama.chat when the module is there.  A
\* retrieval that raises yields the error event.
GenPrepare(s, o) ==
    /\ pc[s] = "created"
    /\ engine' = IF o.built THEN "built" ELSE "None"
    /\ SetLocals(s, o)
    /\ rag' = [rag EXCEPT ![s] = IF o.raised THEN "fail" ELSE "ok"]
    /\ answer' = [answer EXCEPT ![s] = o.answer]
    /\ IF o.raised
       THEN /\ events' = [events EXCEPT
                            ![s] = Append(@, Event(request_id[s], "error", <<>>))]
            /\ pc' = [pc EXCEPT ![s] = "at_terminal"]
       ELSE /\ pc' = [pc EXCEPT ![s] = "loop"]
            /\ UNCHANGED events
    /\ UNCHANGED <<envVars, active_streams, request_id, cancel_event, pos, setAt,
                   cancelVars, callVars, buildVars>>

\* for ch in _stream_chunks_chars(answer) on an answer that is no text:
\* iterating a float raises, the finally block deregisters, nothing is yielded
GenCrash(s) ==
    /\ pc[s] = "loop"
    /\ answer[s].nan
    /\ active_streams' = Popped(s)
    /\ pc' = [pc EXCEPT ![s] = "crashed"]
    /\ UNCHANGED <<envVars, engine, request_id, cancel_event, events, answer, pos, rag,
                   localVars, setAt, cancelVars, callVars, buildVars>>

\* a loop that tests cancel_event before its first chunk only
GenCheckOnce(s) ==
    /\ pc[s] \in {"loop", "at_chunk"}
    /\ ~answer[s].nan
    /\ pos[s] < Len(StreamChunksChars(answer[s].s))
    /\ IF cancel_event[s] /\ pc[s] = "loop"
       THEN /\ events' = [events EXCEPT
                            ![s] = Append(@, Event(request_id[s], "cancelled", <<>>))]
            /\ pc' = [pc EXCEPT ![s] = "at_terminal"]
       ELSE /\ pc' = [pc EXCEPT ![s] = "emit"]
            /\ UNCHANGED events
    /\ UNCHANGED <<envVars, engine, active_streams, request_id, cancel_event, answer, pos,
                   rag, localVars, setAt, cancelVars, callVars, buildVars>>

\* the loop without the test of cancel_event
GenCheckBlind(s) ==
    /\ pc[s] \in {"loop", "at_chunk"}
    /\ ~answer[s].nan
    /\ pos[s] < Len(StreamChunksChars(answer[s].s))
    /\ pc' = [pc EXCEPT ![s] = "emit"]
    /\ UNCHANGED <<envVars, engine, active_streams, request_id, cancel_event, events,
                   answer, pos, rag, localVars, setAt, cancelVars, callVars, buildVars>>

\* the loop takes the next chunk and tests cancel_event (lines 149-152):
\* set, it yields the cancelled event; clear, it goes on to yield the chunk
GenCheck(s) ==
    /\ pc[s] \in {"loop", "at_chunk"}
    /\ ~answer[s].nan
    /\ pos[s] < Len(StreamChunksChars(answer[s].s))
    /\ IF cancel_event[s]
       THEN /\ events' = [events EXCEPT
                            ![s] = Append(@, Event(request_id[s], "cancelled", <<>>))]
            /\ pc' = [pc EXCEPT ![s] = "at_terminal"]
       ELSE /\ pc' = [pc EXCEPT ![s] = "emit"]
            /\ UNCHANGED events
    /\ UNCHANGED <<envVars, engine, active_streams, request_id, cancel_event, answer, pos,
                   rag, localVars, setAt, cancelVars, callVars, buildVars>>

\* yield of the chunk (lines 153-154)
GenChunk(s) ==
    /\ pc[s] = "emit"
    /\ events' = [events EXCEPT
                    ![s] = Append(@, Event(request_id[s], "chunk",
                                           StreamChunksChars(answer[s].s)[pos[s] + 1]))]
    /\ pos' = [pos EXCEPT ![s] = @ + 1]
    /\ pc' = [pc EXCEPT ![s] = "at_chunk"]
    /\ UNCHANGED <<envVars, engine, active_streams, request_id, cancel_event, answer, rag,
                   localVars, setAt, cancelVars, callVars, buildVars>>

\* an end of the loop that tests cancel_event once more before the done event
GenDoneTested(s) ==
    /\ pc[s] \in {"loop", "at_chunk"}
    /\ ~answer[s].nan
    /\ pos[s] = Len(StreamChunksChars(answer[s].s))
    /\ events' = [events EXCEPT
                    ![s] = Append(@, Event(request_id[s],
                                           IF cancel_event[s] THEN "cancelled" ELSE "done",
                                           <<>>))]
    /\ pc' = [pc EXCEPT ![s] = "at_terminal"]
    /\ UNCHANGED <<envVars, engine, active_streams, request_id, cancel_event, answer, pos,
                   rag, localVars, setAt, cancelVars, callVars, buildVars>>

\* the chunks are exhausted: yield of the done event (line 158)
GenDone(s) ==
    /\ pc[s] \in {"loop", "at_chunk"}
    /\ ~answer[s].nan
    /\ pos[s] = Len(StreamChunksChars(answer[s].s))
    /\ events' = [events EXCEPT ![s] = Append(@, Event(request_id[s], "done", <<>>))]
    /\ pc' = [pc EXCEPT ![s] = "at_terminal"]
    /\ UNCHANGED <<envVars, engine, active_streams, request_id, cancel_event, answer, pos,
                   rag, localVars, setAt, cancelVars, callVars, buildVars>>

\* after its terminal event the generator is resumed or closed; either way
\* it leaves through the finally block (lines 123, 152, 158-160)
GenFinish(s) ==
    /\ pc[s] = "at_terminal"
    /\ active_streams' = Popped(s)
    /\ pc' = [pc EXCEPT ![s] = "finished"]
    /\ UNCHANGED <<envVars, engine, request_id, cancel_event, events, answer, pos, rag,
                   localVars, setAt, cancelVars, callVars, buildVars>>

\* the transport stops consuming between two chunks: close() raises
\* GeneratorExit at the yield of line 154 and the finally block runs
GenClose(s) ==
    /\ pc[s] = "at_chunk"
    /\ active_streams' = Popped(s)
    /\ pc' = [pc EXCEPT ![s] = "closed"]
    /\ UNCHANGED <<envVars, engine, request_id, cancel_event, events, answer, pos, rag,
                   localVars, setAt, cancelVars, callVars, buildVars>>

\* the transport never starts consuming: a generator closed or collected
\* before its first next() runs no line of its body, so not the finally block
GenDrop(s) ==
    /\ pc[s] = "created"
    /\ pc' = [pc EXCEPT ![s] = "dropped"]
    /\ UNCHANGED <<envVars, engine, active_streams, request_id, cancel_event, events,
                   answer, pos, rag, localVars, setAt, cancelVars, callVars, buildVars>>

\* -------------------------------------------------------------- llm_cancel
NeverRegistered(r) == \A s \in Requests : ~(IsStream(s) /\ request_id[s] = r)
AlreadyTerminal(r) ==
    /\ ~NeverRegistered(r)
    /\ \A s \in Requests : (IsStream(s) /\ request_id[s] = r) => TerminalEmitted(s)

Late(r) == NeverRegistered(r) \/ AlreadyTerminal(r)

\* llm_cancel up to the lookup (lines 171-179), with its 400 and 404 answers
CancelLookup(c, rid_in) ==
    /\ cpc[c] = "idle"
    /\ IF rid_in = None
       THEN /\ cres' = [cres EXCEPT ![c] = "bad_request"]
            /\ clate' = [clate EXCEPT ![c] = FALSE]
            /\ UNCHANGED <<cpc, cev>>
       ELSE IF active_streams[rid_in[1]] # NoRequest
       THEN /\ cpc' = [cpc EXCEPT ![c] = "got"]
            /\ cev' = [cev EXCEPT ![c] = active_streams[rid_in[1]]]
            /\ clate' = [clate EXCEPT ![c] = Late(rid_in[1])]
            /\ cres' = [cres EXCEPT ![c] = "none"]
       ELSE /\ cres' = [cres EXCEPT ![c] = "unknown"]
            /\ clate' = [clate EXCEPT ![c] = Late(rid_in[1])]
            /\ UNCHANGED <<cpc, cev>>
    /\ UNCHANGED <<envVars, engine, streamVars, callVars, buildVars>>

\* ev.set() and the 200 answer (lines 180-182)
CancelSet(c) ==
    /\ cpc[c] = "got"
    /\ cancel_event' = [cancel_event EXCEPT ![cev[c]] = TRUE]
    /\ setAt' = IF cancel_event[cev[c]] THEN setAt
                ELSE [setAt EXCEPT ![cev[c]] = SetNow(cev[c])]
    /\ cres' = [cres EXCEPT ![c] = "accepted"]
    /\ cpc' = [cpc EXCEPT ![c] = "idle"]
    /\ cev' = [cev EXCEPT ![c] = NoRequest]
    /\ UNCHANGED <<envVars, engine, active_streams, pc, request_id, events, answer, pos,
                   rag, localVars, clate, callVars, buildVars>>

\* ----------------------------------------------------------- specifications
NextStreams(reqs, keep) ==
    \/ \E s \in reqs, ok \in BOOLEAN, rid_in \in RequestIdInputs :
         LlmStream(s, ok, rid_in, keep)
    \/ \E s \in reqs : pc[s] = "created" /\ \E o \in Outcomes(keep) : GenPrepare(s, o)
    \/ \E s \in reqs : GenCrash(s)
    \/ \E s \in reqs : GenCheck(s)
    \/ \E s \in reqs : GenChunk(s)
    \/ \E s \in reqs : GenDone(s)
    \/ \E s \in reqs : GenFinish(s)
    \/ \E s \in reqs : GenClose(s)
    \/ \E s \in reqs : GenDrop(s)
    \/ \E c \in Cancels, rid_in \in CancelIdInputs : CancelLookup(c, rid_in)
    \/ \E c \in Cancels : CancelSet(c)

\* the service as deployed by default (the lexical retriever, RAG_USE_TFIDF "1", and
\* the ollama module importable), with all its requests; the locals of a request
\* are not kept
Init == InitService /\ ndocs = MaxDocs /\ use_tfidf /\ ollama
Next == NextStreams(Requests, FALSE)
Spec == Init /\ [][Next]_vars

\* one request, with its locals kept
InitLocals == InitService /\ ndocs \in 1..MaxDocs
NextLocals ==
    \/ NextStreams({1}, TRUE)
    \/ NextSlot(1) /\ \E ok \in BOOLEAN, o \in Outcomes(TRUE) : LlmApi(1, ok, o)
SpecLocals == InitLocals /\ [][NextLocals]_vars

\* the engine alone: its construction and direct calls of retrieve
RetrieveKs == {None} \cup {Some(k) : k \in (0 - MaxDocs - 1)..(MaxDocs + 1)}

\* RAGEngine(data_path, use_tfidf=..., model_path=...) (lines 21-46)
EngineInit ==
    /\ engine = "None"
    /\ engine' = "built"
    /\ UNCHANGED <<envVars, streamVars, cancelVars, callVars, buildVars>>

\* eng.retrieve(query, top_k) on the built engine
RetrieveCall(k, sims, order) ==
    /\ engine = "built"
    /\ rcall' = [top_k |-> k, sims |-> sims,
                 out |-> Retrieve(Df(ndocs), use_tfidf, k, sims, order)]
    /\ UNCHANGED <<envVars, engine, streamVars, cancelVars, hcall, buildVars>>

\* handle_query(message, top_k) on the built engine
HandleQueryCall(k, sims, order) ==
    /\ engine = "built"
    /\ hcall' = [top_k |-> k,
                 results |-> Retrieve(Df(ndocs), use_tfidf, k, sims, order),
                 out |-> HandleQuery(Df(ndocs), use_tfidf, k, sims, order)]
    /\ UNCHANGED <<envVars, engine, streamVars, cancelVars, rcall, buildVars>>

NextRetrieve ==
    \/ EngineInit
    \/ \E k \in RetrieveKs, sims \in SimVectors(ndocs) :
         \E order \in Argsorts(sims) : RetrieveCall(k, sims, order)
    \/ \E k \in RetrieveKs, sims \in SimVectors(ndocs) :
         \E order \in Argsorts(sims) : HandleQueryCall(k, sims, order)
SpecRetrieve == InitLocals /\ [][NextRetrieve]_vars

\* concurrent first queries: _get_engine split at the points where another
\* thread may run
\* `if _engine is None` (line 81): a thread that sees None starts RAGEngine(...)
GetEngineTest(q) ==
    /\ qpc[q] = "idle"
    /\ IF engine = "None"
       THEN /\ qpc' = [qpc EXCEPT ![q] = "building"]
            /\ nbuilds' = nbuilds + 1
       ELSE /\ qpc' = [qpc EXCEPT ![q] = "ready"]
            /\ UNCHANGED nbuilds
    /\ UNCHANGED <<envVars, engine, streamVars, cancelVars, callVars>>

\* RAGEngine(...) returns and is assigned to _engine (line 85)
GetEngineAssign(q) ==
    /\ qpc[q] = "building"
    /\ engine' = "built"
    /\ qpc' = [qpc EXCEPT ![q] = "ready"]
    /\ UNCHANGED <<envVars, streamVars, cancelVars, callVars, nbuilds>>

\* RAGEngine(...) raises: _engine is left as it is
GetEngineRaise(q) ==
    /\ qpc[q] = "building"
    /\ qpc' = [qpc EXCEPT ![q] = "raised"]
    /\ UNCHANGED <<envVars, engine, streamVars, cancelVars, callVars, nbuilds>>

\* eng.retrieve(message, top_k=top_k) on the engine _get_engine returned (line 95)
QueryRetrieve(q) ==
    /\ qpc[q] = "ready"
    /\ qpc' = [qpc EXCEPT ![q] = "retrieved"]
    /\ UNCHANGED <<envVars, engine, streamVars, cancelVars, callVars, nbuilds>>

NextEngine ==
    \/ \E q \in Queries : GetEngineTest(q)
    \/ \E q \in Queries : GetEngineAssign(q)
    \/ \E q \in Queries : GetEngineRaise(q)
    \/ \E q \in Queries : QueryRetrieve(q)
SpecEngine == InitLocals /\ [][NextEngine]_vars

\* ------------------------------------------------------------- properties
RECURSIVE Concat(_)
Concat(ts) == IF ts = <<>> THEN <<>> ELSE Head(ts) \o Concat(Tail(ts))

\* the texts of the events of stream s, in order
Texts_(s) == [i \in 1..Len(events[s]) |-> events[s][i].text]
ChunkPrefix(s, n) == Concat(SubSeq(Texts_(s), 1, n))
LastKind(s) == IF events[s] = <<>> THEN "none" ELSE events[s][Len(events[s])].kind
\* the generator of s ran to its own end under a transport that consumed it all
Exhausted(s) == pc[s] \in {"finished", "crashed"}
\* the flag tests of line 150 that the generator of s has performed
Checks(s) == NChunks(s) + Count(s, "cancelled") + (IF pc[s] = "emit" THEN 1 ELSE 0)

\* C1: a stream whose retrieval succeeded and whose cancellation flag was never
\* set, consumed to its end, has emitted chunk events only (one per character
\* of the final answer, a single empty chunk for an empty answer) whose texts
\* concatenate to the final answer, followed by exactly one done event, last.
C1Claim ==
    \A s \in Requests :
        (Exhausted(s) /\ rag[s] = "ok" /\ ~cancel_event[s]) =>
            LET n == Len(events[s]) IN
            /\ n >= 2
            /\ events[s][n].kind = "done"
            /\ \A i \in 1..(n - 1) : events[s][i].kind = "chunk"
            /\ ~answer[s].nan
            /\ ChunkPrefix(s, n - 1) = answer[s].s
            /\ answer[s].s = <<>> => n = 2
            /\ answer[s].s # <<>> => \A i \in 1..(n - 1) : Len(events[s][i].text) = 1

\* C2 as stated: a stream whose flag was set while it was registered and had not
\* yet emitted its terminal event ends with exactly one cancelled event and no
\* done event.
C2Claim ==
    \A s \in Requests :
        (pc[s] = "finished" /\ rag[s] = "ok" /\ setAt[s].live) =>
            /\ Count(s, "cancelled") = 1
            /\ Count(s, "done") = 0
            /\ LastKind(s) = "cancelled"

\* C2, amended: when the flag was set while the stream was live and the generator
\* has performed a flag test since, the stream carries exactly one cancelled
\* event, which is its last event, no done event, and no chunk beyond the one
\* whose flag test preceded the setting.
C2Amended ==
    \A s \in Requests :
        (setAt[s].live /\ Checks(s) > setAt[s].chunks + (IF setAt[s].busy THEN 1 ELSE 0)) =>
            /\ Count(s, "cancelled") = 1
            /\ Count(s, "done") = 0
            /\ LastKind(s) = "cancelled"
            /\ NChunks(s) = setAt[s].chunks + (IF setAt[s].busy THEN 1 ELSE 0)

C2Witness ==
    \E s \in Requests :
        /\ pc[s] = "finished"
        /\ setAt[s].live
        /\ setAt[s].chunks >= 1
        /\ LastKind(s) = "cancelled"

\* C3: a cancel request whose id was never registered, or whose streams have all
\* emitted their terminal event, is not accepted.
C3Claim == \A c \in Cancels : clate[c] => cres[c] # "accepted"

\* C4: a stream that can make no further step (its generator ended, was closed,
\* or was never started by the transport) is no longer in the registry.
C4Claim ==
    \A s \in Requests :
        pc[s] \in {"finished", "closed", "crashed", "dropped"} => ~Registered(s)

\* C5: a stream whose retrieval raised emits exactly one error event and nothing
\* else, whatever the state of its cancellation flag, and is deregistered once
\* the generator has ended.
C5ErrorOnly ==
    \A s \in Requests :
        (IsStream(s) /\ rag[s] = "fail") =>
            /\ events[s] = <<Event(request_id[s], "error", <<>>)>>
            /\ pc[s] \in {"at_terminal", "finished"}
            /\ pc[s] = "finished" => active_streams[request_id[s]] # s

C5Witness ==
    \E s \in Requests :
        /\ rag[s] = "fail"
        /\ pc[s] = "finished"
        /\ cancel_event[s]
        /\ setAt[s].live
        /\ events[s] = <<Event(request_id[s], "error", <<>>)>>

\* C8: a stream whose flag was first set only after its last chunk had been
\* emitted never emits a cancelled event, and its terminal event is done.
C8LateCancel ==
    \A s \in Requests :
        (rag[s] = "ok" /\ ~answer[s].nan /\ cancel_event[s]
         /\ setAt[s].chunks = Len(StreamChunksChars(answer[s].s))) =>
            /\ Count(s, "cancelled") = 0
            /\ pc[s] \in {"at_chunk", "at_terminal", "finished", "closed"}
            /\ pc[s] \in {"at_terminal", "finished"} =>
                 (LastKind(s) = "done" /\ Count(s, "done") = 1)

C8Witness ==
    \E s \in Requests :
        /\ pc[s] = "finished"
        /\ setAt[s].live
        /\ setAt[s].chunks = Len(StreamChunksChars(answer[s].s))
        /\ LastKind(s) = "done"

\* the text streamed so far by s: its chunks, concatenated
Streamed(s) == Concat(Texts_(s))
IsPrefix(a, b) == Len(a) <= Len(b) /\ a = SubSeq(b, 1, Len(a))
\* the refiner of request s was there and returned a non-empty text
Refined(s) == chat[s].kind = "dict" /\ AssistantContent(chat[s]) # <<>>

C7RequestId ==
    \A s \in Requests :
        IsStream(s) =>
            LET rid == IF given[s] # None /\ given[s][1] # "" THEN given[s][1] ELSE Uuid(s)
            IN  \A i \in 1..Len(events[s]) : events[s][i].request_id = rid

C7Witness ==
    \E s \in Requests :
        /\ pc[s] = "finished"
        /\ given[s] = Some("r1")
        /\ Len(events[s]) >= 3
        /\ \A i \in 1..Len(events[s]) : events[s][i].request_id = "r1"

\* C9: retrieve(query, k) returns at most min(k, N) results (k the default when
\* absent), each with an index in [0, N), for every k and both retrieval variants.
C9Claim ==
    (rcall # NoCall /\ ~rcall.out.raised) =>
        LET k == IF rcall.top_k = None THEN DefaultTopK ELSE rcall.top_k[1]
            rs == rcall.out.results
        IN  /\ Len(rs) <= Min(k, ndocs)
            /\ \A j \in 1..Len(rs) : rs[j].index \in 0..(ndocs - 1)

\* C10: a request whose top_k is an integer below one is rejected before any
\* retrieval: no retrieval succeeds for it and no candidate is returned.
C10Claim ==
    \A s \in Requests :
        (top_k[s].kind = "int" /\ top_k[s].v <= 0) => (rag[s] # "ok" /\ ncand[s] = 0)

\* C11: handle_query returns the candidates in retrieval order; its answer is the
\* first candidate's answer when that is a non-empty text, otherwise the first
\* candidate's text, otherwise the empty text; match is the first candidate's
\* text, null without candidates; score is the first candidate's score, 0
\* without candidates; no candidates is a normal result.
C11Claim ==
    (hcall # NoQuery /\ ~hcall.results.raised) =>
        LET rs == hcall.results.results
            cs == hcall.out.candidates
        IN  /\ ~hcall.out.raised
            /\ Len(cs) = Len(rs)
            /\ \A j \in 1..Len(cs) :
                 /\ cs[j].index = rs[j].index
                 /\ cs[j].text = rs[j].text
                 /\ cs[j].score = rs[j].score
            /\ IF cs = <<>>
               THEN /\ hcall.out.answer = Str(<<>>)
                    /\ hcall.out.match = None
                    /\ hcall.out.score = 0
               ELSE /\ hcall.out.answer =
                         IF ~cs[1].answer.nan /\ cs[1].answer.s # <<>>
                         THEN cs[1].answer ELSE Str(cs[1].text)
                    /\ hcall.out.match = Some(cs[1].text)
                    /\ hcall.out.score = cs[1].score

\* the indices retrieve returned in its last direct call
ReturnedIndices == {rcall.out.results[j].index : j \in 1..Len(rcall.out.results)}

\* C12: in the lexical variant the results of retrieve are in non-increasing order
\* of score, each score is the similarity of its document, and no document left
\* out of the results has a similarity strictly greater than a returned score.
C12Sorted ==
    (use_tfidf /\ rcall # NoCall) =>
        LET rs == rcall.out.results
        IN  /\ ~rcall.out.raised
            /\ \A j \in 1..Len(rs) :
                 /\ rs[j].index \in 0..(ndocs - 1)
                 /\ rs[j].score = rcall.sims[rs[j].index + 1]
            /\ \A j \in 1..(Len(rs) - 1) : rs[j].score >= rs[j + 1].score
            /\ \A d \in (0..(ndocs - 1)) \ ReturnedIndices :
                 \A j \in 1..Len(rs) : rcall.sims[d + 1] <= rs[j].score

C12Witness ==
    /\ use_tfidf
    /\ rcall # NoCall
    /\ Len(rcall.out.results) >= 1
    /\ \E d \in (0..(ndocs - 1)) \ ReturnedIndices :
         /\ rcall.sims[d + 1] < rcall.out.results[Len(rcall.out.results)].score

\* C13: every candidate of handle_query has an index in [0, N) and the question
\* and answer of that very row, or has empty question and answer; handle_query
\* does not fail on an index outside [0, N).
C13Claim ==
    (hcall # NoQuery /\ ~hcall.results.raised) =>
        /\ ~hcall.out.raised
        /\ \A j \in 1..Len(hcall.out.candidates) :
             LET c == hcall.out.candidates[j]
             IN  \/ /\ c.index \in 0..(ndocs - 1)
                    /\ c.question = Df(ndocs)[c.index + 1].question
                    /\ c.answer = Df(ndocs)[c.index + 1].answer
                 \/ /\ c.question = Str(<<>>)
                    /\ c.answer = Str(<<>>)

\* C14: a cancel handler sets the flag and reports accepted only while the request
\* id it looked up is still in the registry: no step in which a handler past
\* its lookup accepts finds the id deregistered.
C14Claim ==
    [][\A c \in Cancels :
         (cpc[c] = "got" /\ cpc'[c] = "idle" /\ cres'[c] = "accepted") =>
             active_streams[request_id[cev[c]]] # NoRequest]_vars

\* C15: the engine is built at most once, no two builds run at the same time, and
\* a thread retrieves only from an engine whose build has finished.
C15Claim ==
    /\ nbuilds <= 1
    /\ Cardinality({q \in Queries : qpc[q] = "building"}) <= 1
    /\ \A q \in Queries : qpc[q] \in {"ready", "retrieved"} => engine = "built"

\* C16: a stream between its acceptance and its terminal event is the stream the
\* registry holds under its request id, also when another stream was begun
\* with the same request id.
C16Claim ==
    \A s \in Requests :
        pc[s] \in {"created", "loop", "emit", "at_chunk"} =>
            active_streams[request_id[s]] = s

\* C17: the events of a stream consumed to its end are a run of chunk events
\* followed by exactly one terminal event (done, cancelled or error), nothing
\* after it, and an error event is preceded by no chunk.
C17Claim ==
    \A s \in Requests :
        Exhausted(s) =>
            LET n == Len(events[s])
            IN  /\ n >= 1
                /\ events[s][n].kind \in TerminalKinds
                /\ \A i \in 1..(n - 1) : events[s][i].kind = "chunk"
                /\ events[s][n].kind = "error" => n = 1

\* the flag tests of s that came before the first setting of its flag
ChecksAtSet(s) == setAt[s].chunks + (IF setAt[s].busy THEN 1 ELSE 0)

\* C18: once the flag of a stream is set, the stream emits at most one more chunk
\* (the one whose flag test came before the setting), and the first flag test
\* after the setting ends the stream with a cancelled event.
C18Bounded ==
    \A s \in Requests :
        setAt[s] # NeverSet =>
            /\ cancel_event[s]
            /\ NChunks(s) <= setAt[s].chunks + 1
            /\ NChunks(s) = ChecksAtSet(s) \/ (setAt[s].busy /\ pc[s] = "emit")
            /\ Checks(s) <= ChecksAtSet(s) + 1
            /\ Checks(s) > ChecksAtSet(s) =>
                 (LastKind(s) = "cancelled" /\ pc[s] \in {"at_terminal", "finished"})

C18Witness ==
    \E s \in Requests :
        /\ setAt[s].busy
        /\ NChunks(s) = setAt[s].chunks + 1
        /\ LastKind(s) = "cancelled"
        /\ pc[s] = "finished"

\* C19: a step that is neither a step of stream b nor the setting of a flag looked
\* up under b's request id, and that moves only streams whose request id
\* differs from b's, leaves b's flag, b's events and the registry entry of b's
\* request id unchanged.
C19Independent ==
    [][\A b \in Requests :
         ( /\ IsStream(b)
           /\ pc'[b] = pc[b]
           /\ \A c \in Cancels :
                (cpc[c] = "got" /\ cpc'[c] = "idle") =>
                    request_id[cev[c]] # request_id[b]
           /\ \A a \in Requests : pc'[a] # pc[a] => request_id'[a] # request_id[b] ) =>
             /\ cancel_event'[b] = cancel_event[b]
             /\ events'[b] = events[b]
             /\ request_id'[b] = request_id[b]
             /\ active_streams'[request_id[b]] = active_streams[request_id[b]]]_vars

C19Witness ==
    \E a, b \in Requests :
        /\ request_id[a] # request_id[b]
        /\ pc[a] = "finished"
        /\ LastKind(a) = "cancelled"
        /\ pc[b] = "at_chunk"
        /\ ~cancel_event[b]
        /\ active_streams[request_id[b]] = b

====
